---- MODULE Spec2Model ----
(***************************************************************************)
(* go-pcp: copy a Go package and its dependencies into a new workspace.    *)
(* A state-machine model of src/pcp.go: main, parseImport, checkError,     *)
(* createWorkspace, findPkg, findSubPkgs, getPackage and copyPkg.  The     *)
(* recursion of copyPkg is modelled by an explicit call stack.             *)
(*                                                                         *)
(* Import paths and directory paths are sequences of path components; a    *)
(* directory path starts with the component "/", a relative one with ".".  *)
(***************************************************************************)
EXTENDS Integers, Sequences, FiniteSets, TLC

\* ------------------------------------------------------------------ bounds
MaxFaults == 1     \* operations that fail in one copyDir call
MaxSpecs == 2      \* import specifiers on the command line

\* ------------------------------------------------------- the file system
GoRootSrc == <<"/", "goroot", "src">>
GoPathSrc == <<"/", "gopath", "src">>
Cwd == <<"/", "home", "x">>
NoPath == <<>>

\* A directory and a file (go: a Go source file).  Modes are permission
\* bits: 493 = 0755, 484 = 0744, 448 = 0700, 420 = 0644, 292 = 0444.
D(path, mode) == [path |-> path, dir |-> TRUE, go |-> FALSE, mode |-> mode,
                  data |-> ""]
F(path, mode, data, go) == [path |-> path, dir |-> FALSE, go |-> go,
                            mode |-> mode, data |-> data]

\* The entries of the pre-existing environment in the lexical order in which
\* filepath.Walk visits them.  The working directory holds a workspace ws
\* that an earlier run has left, with the package old in it.
Tree ==
  << D(GoPathSrc \o <<"A">>, 493),
     F(GoPathSrc \o <<"A", "a.go">>, 420, "a", TRUE),
     D(GoPathSrc \o <<"A", "s">>, 448),
     F(GoPathSrc \o <<"A", "s", "s.go">>, 292, "s", TRUE),
     D(GoPathSrc \o <<"A", "t">>, 493),
     D(GoPathSrc \o <<"B">>, 493),
     F(GoPathSrc \o <<"B", "b.go">>, 420, "b", TRUE),
     D(GoRootSrc \o <<"archive">>, 493),
     D(GoRootSrc \o <<"fmt">>, 493),
     F(GoRootSrc \o <<"fmt", "fmt.go">>, 420, "f", TRUE),
     D(<<"/", "home", "x">>, 493),
     F(<<"/", "home", "x", ".env">>, 420, "e", FALSE),
     D(<<"/", "home", "x", ".h">>, 493),
     D(<<"/", "home", "x", ".h", "p">>, 493),
     F(<<"/", "home", "x", ".h", "p", "p.go">>, 420, "p", TRUE),
     D(<<"/", "home", "x", "ws">>, 484),
     D(<<"/", "home", "x", "ws", "src">>, 484),
     D(<<"/", "home", "x", "ws", "src", "old">>, 493),
     F(<<"/", "home", "x", "ws", "src", "old", "o.go">>, 420, "o", TRUE),
     F(<<"/", "home", "x", "x.go">>, 420, "x", TRUE),
     D(<<"/", "home", "y">>, 493) >>

\* Names that begin with a dot (info.Name()[0] == '.').
DotNames == { ".env", ".h" }

\* Import paths for which only a compiled archive exists (build.AllowBinary).
BinaryOnly == { <<"bin">> }

TreeIdx == 1..Len(Tree)
Parent(path) == SubSeq(path, 1, Len(path) - 1)
Base(path) == path[Len(path)]
DirExists(d) == \E k \in TreeIdx : Tree[k].path = d /\ Tree[k].dir
HasGoFiles(d) == DirExists(d) /\ \E k \in TreeIdx :
                   Tree[k].go /\ Parent(Tree[k].path) = d
PkgDirs == { Parent(Tree[k].path) : k \in { n \in TreeIdx : Tree[n].go } }

IsPrefix(p, q) == Len(p) <= Len(q) /\ SubSeq(q, 1, Len(p)) = p
\* go/build hasSubdir: dir lies strictly below root
HasSubdir(root, dir) == IsPrefix(root, dir) /\ Len(dir) > Len(root)
Rel(base, path) == SubSeq(path, Len(base) + 1, Len(path))

\* build.IsLocalImport
IsLocalImport(path) == path # <<>> /\ path[1] \in {".", ".."}
\* filepath.IsAbs / filepath.Abs
IsAbs(path) == path # <<>> /\ path[1] = "/"
Abs(path) == IF IsAbs(path) THEN path
             ELSE IF path # <<>> /\ path[1] = "." THEN Cwd \o Tail(path)
             ELSE Cwd \o path

\* ------------------------------------------------------------ error values
SyntaxErr(what, s) == [type |-> "syntaxErr", op |-> what, arg |-> s, n |-> 0]
FmtErr(what, s, k) == [type |-> "fmtErr", op |-> what, arg |-> s, n |-> k]

NoExit == -1       \* the process keeps running
Nil == [type |-> "nil", op |-> "", arg |-> <<>>, n |-> 0]

\* ------------------------------------------------------------ go/build
\* build.Import(path, srcDir, build.AllowBinary) over the directories of Tree.
\* imps gives the imports of the Go sources of each package directory.
\* A *build.Package is returned in every case, with or without an error.
Import(path, srcDir, imps) ==
  LET local == srcDir # NoPath
      inRoot == local /\ HasSubdir(GoRootSrc, srcDir)
      inPath == local /\ ~inRoot /\ HasSubdir(GoPathSrc, srcDir)
      binOnly == ~local /\ ~DirExists(GoRootSrc \o path)
                 /\ ~DirExists(GoPathSrc \o path) /\ path \in BinaryOnly
      dir == IF local THEN srcDir
             ELSE IF DirExists(GoRootSrc \o path) THEN GoRootSrc \o path
             ELSE IF DirExists(GoPathSrc \o path) THEN GoPathSrc \o path
             ELSE NoPath
      ok == HasGoFiles(dir)
  IN [ ImportPath |-> IF inRoot THEN Rel(GoRootSrc, srcDir)
                      ELSE IF inPath THEN Rel(GoPathSrc, srcDir)
                      ELSE path,
       Dir     |-> dir,
       Name    |-> IF ok THEN "pkg" ELSE "",
       Goroot  |-> IF local THEN inRoot
                   ELSE dir # NoPath /\ IsPrefix(GoRootSrc, dir),
       Imports |-> IF ok THEN imps[dir] ELSE <<>>,
       err     |-> ~ok /\ ~binOnly ]

\* ------------------------------------------------------------ findPkg
\* findPkg without lines 230-232
findPkgDerived(path, newImportPath, imps) ==
  LET isDir == IsLocalImport(path) \/ path[1] = "/"
      srcDir == IF isDir THEN Abs(path) ELSE NoPath
  IN Import(IF isDir THEN <<".">> ELSE path, srcDir, imps)

findPkg(path, newImportPath, imps) ==
  LET isDir == IsLocalImport(path) \/ path[1] = "/"
      srcDir == IF isDir THEN Abs(path) ELSE NoPath
      pkg == Import(IF isDir THEN <<".">> ELSE path, srcDir, imps)
  IN IF newImportPath # <<>>
     THEN [pkg EXCEPT !.ImportPath = newImportPath]
     ELSE pkg

\* ------------------------------------------------------------ findSubPkgs
\* lines 267-269 and 398-400 left out
SkipsNothing(path, ws) == FALSE
\* lines 267 and 398: the walk function returns SkipDir at the workspace
SkipsWorkspace(path, ws) == path = ws

\* The walk of basePath: Tree is in walk order; only directories other than
\* basePath are looked at (lines 260-263), and nothing below a directory at
\* which SkipDir was returned (skip).
\* line 275 without the import path of the base package
SubImportPathRel(baseImportPath, rel) == rel
\* line 275: baseImportPath + "/" + filepath.ToSlash(rel)
SubImportPath(baseImportPath, rel) == baseImportPath \o rel

RECURSIVE WalkSubPkgs(_, _, _, _, _, _)
WalkSubPkgs(k, skip, basePath, baseImportPath, ws, imps) ==
  IF k > Len(Tree) THEN <<>>
  ELSE LET path == Tree[k].path
           rest == WalkSubPkgs(k + 1, skip, basePath, baseImportPath, ws, imps)
       IN IF \/ ~HasSubdir(basePath, path) \/ ~Tree[k].dir
             \/ (skip # NoPath /\ IsPrefix(skip, path))
          THEN rest
          ELSE IF SkipsWorkspace(path, ws)
          THEN WalkSubPkgs(k + 1, path, basePath, baseImportPath, ws, imps)
          ELSE LET pkg == findPkg(path,
                                  SubImportPath(baseImportPath,
                                                Rel(basePath, path)),
                                  imps)
               IN IF pkg.err THEN rest
                  ELSE <<[path |-> pkg.Dir, newImportPath |-> pkg.ImportPath]>>
                       \o rest

findSubPkgs(basePath, baseImportPath, ws, imps) ==
  WalkSubPkgs(1, NoPath, basePath, baseImportPath, ws, imps)

\* ------------------------------------------------------------ parseImport
\* An import specifier "importPath[:dir]" is a sequence of components in
\* which the component ":" stands for the colon.
Colons(s) == { k \in 1..Len(s) : s[k] = ":" }
FirstColon(s) == CHOOSE k \in Colons(s) : \A m \in Colons(s) : k <= m
\* strings.SplitN(s, ":", 2)
SplitN2(s) == IF Colons(s) = {} THEN <<s>>
              ELSE << SubSeq(s, 1, FirstColon(s) - 1),
                      SubSeq(s, FirstColon(s) + 1, Len(s)) >>

parseImport(s) ==
  LET split == SplitN2(s)
  IN IF split[1] = <<>>
     THEN [importPath |-> <<>>, dir |-> NoPath,
           err |-> SyntaxErr("import", s)]
     ELSE IF Len(split) = 2 /\ split[2] # <<>>
     THEN IF ~DirExists(Abs(split[2]))
          THEN [importPath |-> split[1], dir |-> NoPath,
                err |-> FmtErr("stat", split[2], 0)]
          ELSE [importPath |-> split[1], dir |-> Abs(split[2]), err |-> Nil]
     ELSE [importPath |-> split[1], dir |-> NoPath, err |-> Nil]

\* ------------------------------------------------------------ createWorkspace
BadPath == <<"\\x00">>
\* createWorkspace without lines 171-176: the empty path goes to filepath.Abs
\* and os.MkdirAll
createWorkspaceNoSyntax(path) ==
  IF path = BadPath
  THEN [absPath |-> Abs(path), err |-> FmtErr("mkdir", path, 0)]
  ELSE [absPath |-> Abs(path), err |-> Nil]

createWorkspace(path) ==
  IF path = <<>>
  THEN [absPath |-> NoPath, err |-> SyntaxErr("workspace", path)]
  ELSE IF path = BadPath
  THEN [absPath |-> Abs(path), err |-> FmtErr("mkdir", path, 0)]
  ELSE [absPath |-> Abs(path), err |-> Nil]

\* ------------------------------------------------------------ checkError
\* The effect of checkError(fatal, errs...): what is printed, whether the
\* usage text is shown, the status the process exits with (NoExit if it
\* goes on), the new value of exitCode, and the value returned.
NonNil(errs) == { k \in 1..Len(errs) : errs[k] # Nil }
FirstNonNil(errs) == CHOOSE k \in NonNil(errs) : \A m \in NonNil(errs) : k <= m

\* checkError with exitCode cleared by a call that finds no error
checkErrorReset(fatal, errs, code) ==
  IF NonNil(errs) = {}
  THEN [ret |-> FALSE, out |-> <<>>, usage |-> 0, exit |-> NoExit,
        exitCode |-> 0]
  ELSE LET e == errs[FirstNonNil(errs)]
       IN IF e.type = "syntaxErr"
          THEN [ret |-> TRUE, out |-> <<e>>, usage |-> 1,
                exit |-> IF fatal THEN 2 ELSE NoExit, exitCode |-> code]
          ELSE [ret |-> TRUE, out |-> <<e>>, usage |-> 0,
                exit |-> IF fatal THEN 1 ELSE NoExit,
                exitCode |-> IF fatal THEN code ELSE 3]

checkError(fatal, errs, code) ==
  IF NonNil(errs) = {}
  THEN [ret |-> FALSE, out |-> <<>>, usage |-> 0, exit |-> NoExit,
        exitCode |-> code]
  ELSE LET e == errs[FirstNonNil(errs)]
       IN IF e.type = "syntaxErr"
          THEN [ret |-> TRUE, out |-> <<e>>, usage |-> 1,
                exit |-> IF fatal THEN 2 ELSE NoExit, exitCode |-> code]
          ELSE [ret |-> TRUE, out |-> <<e>>, usage |-> 0,
                exit |-> IF fatal THEN 1 ELSE NoExit,
                exitCode |-> IF fatal THEN code ELSE 3]

\* ------------------------------------------------------------ copyDir
\* The destination is a function from the paths made by the run to what is
\* there; a directory made on the way to one of them (MkdirAll) is there too.
NoFs == [ p \in {} |-> D(NoPath, 0) ]
There(fs, p) == \E q \in DOMAIN fs : IsPrefix(p, q)
OwnerWrite(mode) == (mode \div 128) % 2 = 1
\* An entry can be made in the directory p.
CanAdd(fs, p) == p \notin DOMAIN fs \/ OwnerWrite(fs[p].mode)

\* 0744, line 411
DirPerm == 484
\* 0666 less the umask 022: what os.Create gives a new file (line 465)
FilePerm == 420

\* The operations on the destination: MkdirAll (line 411), the write of
\* copyFile (lines 465-474) and Chmod (line 440) of the entry copied from src.
OpMkdir(path, src) == [op |-> "mkdir", path |-> path, src |-> src,
                       mode |-> DirPerm, data |-> ""]
OpWrite(path, src, data) == [op |-> "write", path |-> path, src |-> src,
                             mode |-> FilePerm, data |-> data]
OpChmod(path, src, mode) == [op |-> "chmod", path |-> path, src |-> src,
                             mode |-> mode, data |-> ""]

Apply(fs, o) ==
  LET old == o.path \in DOMAIN fs
      others == [ p \in DOMAIN fs \ {o.path} |-> fs[p] ]
      Put(e) == [ p \in DOMAIN fs \cup {o.path} |->
                    IF p = o.path THEN e ELSE fs[p] ]
  IN CASE o.op = "mkdir" ->
            IF old THEN fs ELSE Put(D(o.path, o.mode))
       [] o.op = "write" ->
            Put(F(o.path, IF old THEN fs[o.path].mode ELSE o.mode, o.data,
                  FALSE))
       [] OTHER ->
            IF old THEN Put([fs[o.path] EXCEPT !.mode = o.mode]) ELSE fs

\* What can fail in one call: the visit of an entry (the err of the walk
\* function), the making of its copy (MkdirAll or copyFile) and the Chmod of
\* its copy.  A fault names the entry by its place in Tree.
FaultKinds == { "walk", "make", "chmod" }
Fault(k, kind) == [k |-> k, kind |-> kind]

\* The directory p and the directories missing above it can be made.
RECURSIVE CanMake(_, _)
CanMake(fs, p) ==
  IF Len(p) <= 1 THEN TRUE
  ELSE IF There(fs, Parent(p)) THEN CanAdd(fs, Parent(p))
  ELSE CanMake(fs, Parent(p))

\* os.MkdirAll(dstPath, 0744), line 411
MkdirAllOk(fs, dstPath, k, faults) ==
  /\ Fault(k, "make") \notin faults
  /\ IF dstPath \in DOMAIN fs THEN fs[dstPath].dir
     ELSE There(fs, dstPath) \/ CanMake(fs, dstPath)

\* copyFile, lines 454-484: os.Open, os.Create and io.Copy
CopyFileOk(fs, dstPath, k, faults) ==
  /\ Fault(k, "make") \notin faults
  /\ There(fs, Parent(dstPath))
  /\ IF dstPath \in DOMAIN fs
     THEN ~fs[dstPath].dir /\ OwnerWrite(fs[dstPath].mode)
     ELSE ~There(fs, dstPath) /\ CanAdd(fs, Parent(dstPath))

\* os.Chmod, line 440
ChmodOk(fs, dstPath, k, faults) ==
  /\ Fault(k, "chmod") \notin faults
  /\ There(fs, dstPath)

\* lines 388-393: the entry is hidden and hidden entries are left out
SkipsHidden(hid, path) == ~hid /\ Base(path) \in DotNames

\* the walk function returning the error it has recorded
WalkReturnsErr(err) == err
\* lines 385, 419 and 431: the walk function returns nil after an error, so
\* that filepath.Walk goes on
WalkReturn(err) == FALSE

\* lines 421 and 430 with the mode of MkdirAll and os.Create in place of
\* info.Mode()
ChmodDefault(e) == IF e.dir THEN DirPerm ELSE FilePerm
\* lines 421 and 430: the mode pushed on the stack
ChmodMode(e) == e.mode

\* lines 379-432: the walk function copyFunc at entry k of Tree.  st holds
\* errs, stack, the operations done, the destination, the directory whose
\* subtree is skipped and whether the walk was stopped.
CopyStep(k, st, src, dst, ws, hid, faults) ==
  LET e == Tree[k]
      path == e.path
      dstPath == dst \o Rel(src, path)
      Failed(what, t) ==
        [t EXCEPT !.errs = Append(t.errs, FmtErr(what, path, 0)),
                  !.stop = WalkReturn(TRUE)]
      Pushed(t) ==
        [t EXCEPT !.stack = Append(t.stack,
                              [path |-> dstPath, mode |-> ChmodMode(e),
                               src |-> path, k |-> k])]
  IN IF \/ st.stop \/ ~IsPrefix(src, path)
        \/ (st.skip # NoPath /\ IsPrefix(st.skip, path))
     THEN st
     ELSE IF Fault(k, "walk") \in faults
     THEN [Failed("traverse", st) EXCEPT !.skip = path]
     ELSE IF SkipsHidden(hid, path)
     THEN IF e.dir THEN [st EXCEPT !.skip = path] ELSE st
     ELSE IF SkipsWorkspace(path, ws)
     THEN [st EXCEPT !.skip = path]
     ELSE IF e.dir
     THEN IF MkdirAllOk(st.fs, dstPath, k, faults)
          THEN LET o == OpMkdir(dstPath, path)
               IN Pushed([st EXCEPT !.ops = Append(st.ops, o),
                                    !.fs = Apply(st.fs, o)])
          ELSE Failed("mkdir", st)
     ELSE IF CopyFileOk(st.fs, dstPath, k, faults)
          THEN LET o == OpWrite(dstPath, path, e.data)
               IN Pushed([st EXCEPT !.ops = Append(st.ops, o),
                                    !.fs = Apply(st.fs, o)])
          ELSE LET t == Failed("copyfile", st)
               IN IF t.stop THEN t ELSE Pushed(t)

\* line 434: filepath.Walk(src, copyFunc) over the entries of Tree in order.
CopyWalk(st0, src, dst, ws, hid, faults) ==
  LET after[k \in 0..Len(Tree)] ==
        IF k = 0 THEN st0
        ELSE CHOOSE t \in { CopyStep(k, st, src, dst, ws, hid, faults) :
                             st \in { after[k - 1] } } : TRUE
  IN after[Len(Tree)]

\* lines 440-448: os.Chmod for element i of the stack.
ChmodStep(i, st, faults) ==
  LET c == st.stack[i]
  IN IF ChmodOk(st.fs, c.path, c.k, faults)
     THEN LET o == OpChmod(c.path, c.src, c.mode)
          IN [st EXCEPT !.ops = Append(st.ops, o), !.fs = Apply(st.fs, o)]
     ELSE [st EXCEPT !.errs = Append(st.errs, FmtErr("chmod", c.path, 0))]

\* line 439 with the loop from the bottom of the stack up
StackAtForward(n, j) == j
\* line 439: the element of a stack of n the j-th turn of the loop is at
StackAt(n, j) == n - j + 1

\* lines 439-449: the permissions are set from the top of the stack down.
ChmodAll(st0) ==
  LET n == Len(st0.stack)
      after[j \in 0..n] ==
        IF j = 0 THEN st0
        ELSE CHOOSE t \in { ChmodStep(StackAt(n, j), st, st.faults) :
                             st \in { after[j - 1] } } : TRUE
  IN after[n]

\* copyDir, lines 377-451, on the destination fs: the errors returned, the
\* operations done and the destination left.
copyDir(src, dst, ws, hid, faults, fs) ==
  CHOOSE r \in
    { ChmodAll(st) :
        st \in { CopyWalk([errs |-> <<>>, stack |-> <<>>, ops |-> <<>>,
                           fs |-> fs, skip |-> NoPath, stop |-> FALSE,
                           faults |-> faults],
                          src, dst, ws, hid, faults) } } : TRUE

\* ------------------------------------------------------------ the inputs
A == <<"A">>
B == <<"B">>
E == <<"E">>

\* The imports the Go sources of each package directory may declare.
ImportChoices(d) ==
  IF d = GoPathSrc \o A THEN { <<E, B>>, <<B, <<"fmt">>>> }
  ELSE IF d = GoPathSrc \o <<"A", "s">> THEN { <<A>>, <<A, <<"W">>>> }
  ELSE IF d = GoPathSrc \o B THEN { <<A>>, <<E, <<"bin">>>> }
  ELSE IF d = Cwd THEN { <<B>> }
  ELSE { <<>> }

\* The environments: every choice of the imports of the directories of S.
RECURSIVE ImportWorlds(_)
ImportWorlds(S) ==
  IF S = {} THEN { << >> }
  ELSE LET d == CHOOSE x \in S : TRUE
       IN { (d :> c) @@ f : c \in ImportChoices(d), f \in ImportWorlds(S \ {d}) }

\* Import specifiers of the command line.
SpecChoices ==
  { A, <<"A", "s">>, <<"fmt">>, <<"archive">>,
    <<"A", ":", "/", "home", "y">>, <<"fmt", ":", ".">>,
    <<"B", ":", "/", "nowhere">>, <<":", "/", "home", "x">> }

\* With the working directory given as the package B, which it imports.
TreeChoices == SpecChoices \cup { <<"B", ":", ".">> }

WorkspaceChoices == { <<>>, BadPath, <<"/", "ws">> }
\* The workspace below the working directory, as in "go-pcp ws pkg:."
NestedWorkspace == <<"ws">>

\* The operations of one copyDir call that may fail.
Sites(src, kinds) ==
  { Fault(k, kind) : k \in { n \in TreeIdx : IsPrefix(src, Tree[n].path) },
                     kind \in kinds }
\* The sets of at most n of them.
RECURSIVE FaultSets(_, _)
FaultSets(S, n) ==
  IF n = 0 THEN { {} }
  ELSE FaultSets(S, n - 1) \cup
       { X \cup {f} : X \in FaultSets(S, n - 1), f \in S }
\* In a run of main the copy of one Go source of the package may fail.
RunSites(src) == { f \in Sites(src, {"make"}) :
                     Tree[f.k].go /\ Parent(Tree[f.k].path) = src }
RunFaults(src) == { {} } \cup { {f} : f \in RunSites(src) }

RECURSIVE SeqsUpTo(_, _)
SeqsUpTo(S, n) ==
  IF n = 0 THEN { <<>> }
  ELSE SeqsUpTo(S, n - 1)
       \cup { Append(q, x) : q \in { r \in SeqsUpTo(S, n - 1) : Len(r) = n - 1 },
                             x \in S }

\* ------------------------------------------------------------ the state
VARIABLES
  imports,     \* the environment: imports of each package directory
  args,        \* flag.Args(): workspace path, then the import specifiers
  recursive,   \* -recursive
  workspace,   \* destination workspace (absolute path)
  resolved,    \* the import paths marked in the map resolved
  exitCode,    \* exitCode
  pc,          \* "start", "args" (the loop of main), "exited", "diverged"
  argIdx,      \* index in args of the specifier main is at
  stack,       \* the active copyPkg calls, innermost last
  printed,     \* the errors written to stderr
  usageShown,  \* number of times the usage text was written
  exitStatus,  \* status the process ended with
  calls,       \* history: the branch every copyPkg call took, in call order
  returned,    \* history: import paths of the copyPkg calls that have returned
  worked,      \* history: as returned, calls skipped as standard left out
  mainErrs,    \* history: the errors copyPkg returned to main
  failed,      \* history: an os.Stat, copyDir or getPackage has failed
  lastRet,     \* history: the copyPkg call that returned last
  hidden,      \* -hidden
  dest,        \* what the run has made in the destination
  fsops,       \* history: the operations of copyDir on the destination
  lastCopy,    \* history: the copyDir call made last
  attempted,   \* history: the indices in args main has parsed
  fetched      \* history: the getPackage calls made and how they ended

vars == << imports, args, recursive, workspace, resolved, exitCode, pc, argIdx,
           stack, printed, usageShown, exitStatus, calls, returned, worked,
           mainErrs, failed, lastRet, hidden, dest, fsops, lastCopy,
           attempted, fetched >>

NoPkg == [ImportPath |-> <<>>, Dir |-> NoPath, Name |-> "", Goroot |-> FALSE,
          Imports |-> <<>>, err |-> FALSE]

NoRet == [id |-> <<>>, branch |-> "none", pkg |-> NoPkg, errs |-> <<>>,
          copyErrs |-> <<>>, childErrs |-> <<>>, nDeps |-> 0, nSubs |-> 0,
          subs |-> <<>>, kids |-> <<>>]

NoCopy == [src |-> NoPath, dst |-> NoPath, ws |-> NoPath, hid |-> FALSE,
           faults |-> {}, fs0 |-> NoFs, errs |-> <<>>, ops |-> <<>>,
           fs |-> NoFs]

\* A call copyPkg(path, newImportPath) that has not yet run its first line;
\* res0 keeps the value resolved has at the call.
NewCall(path, newImportPath, res) ==
  [ path |-> path, newImportPath |-> newImportPath, res0 |-> res,
    pkg |-> NoPkg,
    at |-> "enter", i |-> 1, subs |-> <<>>, j |-> 1, errs |-> <<>>,
    copyErrs |-> <<>>, childErrs |-> <<>>, nDeps |-> 0, nSubs |-> 0,
    kids |-> <<>> ]

\* The state main starts in, for every command line.
InitAll ==
  /\ imports \in ImportWorlds(PkgDirs)
  /\ args \in { <<>> } \cup
              { <<w>> \o q : w \in WorkspaceChoices \cup {NestedWorkspace},
                             q \in SeqsUpTo(TreeChoices, MaxSpecs) }
  /\ recursive \in BOOLEAN
  /\ hidden \in BOOLEAN
  /\ workspace = NoPath
  /\ resolved = {}
  /\ exitCode = 0
  /\ pc = "start"
  /\ argIdx = 2
  /\ stack = <<>>
  /\ printed = <<>>
  /\ usageShown = 0
  /\ exitStatus = NoExit
  /\ calls = <<>>
  /\ returned = {}
  /\ worked = {}
  /\ mainErrs = <<>>
  /\ failed = FALSE
  /\ lastRet = NoRet
  /\ dest = NoFs
  /\ fsops = <<>>
  /\ lastCopy = NoCopy
  /\ attempted = <<>>
  /\ fetched = <<>>

\* Runs without -hidden, with the workspace outside the directories read and
\* with A/s importing A alone.
Init == /\ InitAll /\ ~hidden
        /\ Len(args) > 0 => args[1] \in WorkspaceChoices
        /\ \A k \in 2..Len(args) : args[k] \in SpecChoices
        /\ imports[GoPathSrc \o <<"A", "s">>] = <<A>>

\* ------------------------------------------------------------ main
Top == stack[Len(stack)]
Running == pc = "args" /\ stack # <<>>

\* main, lines 60-72: the argument count, createWorkspace and the fatal
\* checkError.
Startup ==
  /\ pc = "start"
  /\ IF Len(args) < 2
     THEN /\ pc' = "exited"
          /\ exitStatus' = 2
          /\ usageShown' = usageShown + 1
          /\ UNCHANGED << workspace, printed >>
     ELSE LET w == createWorkspace(args[1])
              c == checkError(TRUE, <<w.err>>, exitCode)
          IN /\ printed' = printed \o c.out
             /\ usageShown' = usageShown + c.usage
             /\ IF c.exit # NoExit
                THEN /\ pc' = "exited"
                     /\ exitStatus' = c.exit
                     /\ UNCHANGED workspace
                ELSE /\ pc' = "args"
                     /\ workspace' = w.absPath
                     /\ UNCHANGED exitStatus
  /\ UNCHANGED << imports, args, recursive, resolved, exitCode, argIdx, stack,
                  calls, returned, worked, mainErrs, failed, lastRet, hidden,
                  dest, fsops, lastCopy, attempted, fetched >>

\* line 77 as a break: the loop is left at a specifier that cannot be parsed
Break(i, n) == n + 1
\* line 77: continue, the loop goes to the specifier after i
Continue(i, n) == i + 1

\* main, lines 74-87: one iteration of the loop up to the call of copyPkg.
NextArg ==
  /\ pc = "args" /\ stack = <<>> /\ argIdx <= Len(args)
  /\ LET p == parseImport(args[argIdx])
         c == checkError(FALSE, <<p.err>>, exitCode)
     IN /\ printed' = printed \o c.out
        /\ usageShown' = usageShown + c.usage
        /\ exitCode' = c.exitCode
        /\ failed' = (failed \/ p.err.type = "fmtErr")
        /\ attempted' = Append(attempted, argIdx)
        /\ IF c.ret
           THEN /\ argIdx' = Continue(argIdx, Len(args))
                /\ UNCHANGED stack
           ELSE /\ stack' = IF p.dir # NoPath
                            THEN << NewCall(p.dir, p.importPath, resolved) >>
                            ELSE << NewCall(p.importPath, <<>>, resolved) >>
                /\ UNCHANGED argIdx
  /\ UNCHANGED << imports, args, recursive, workspace, resolved, pc,
                  exitStatus, calls, returned, worked, mainErrs, lastRet,
                  hidden, dest, fsops, lastCopy, fetched >>

\* main, lines 89-92.
Exit ==
  /\ pc = "args" /\ stack = <<>> /\ argIdx > Len(args)
  /\ pc' = "exited"
  /\ exitStatus' = exitCode
  /\ UNCHANGED << imports, args, recursive, workspace, resolved, exitCode,
                  argIdx, stack, printed, usageShown, calls, returned, worked,
                  mainErrs, failed, lastRet, hidden, dest, fsops, lastCopy,
                  attempted, fetched >>

\* ------------------------------------------------------------ copyPkg
\* The return of the innermost call with the error list errs: the caller
\* appends it to its own list (lines 353 and 366), or main hands it to
\* checkError (lines 82 and 85) and moves to the next specifier.
Return(f, branch, errs) ==
  /\ lastRet' = [id |-> f.pkg.ImportPath, branch |-> branch, pkg |-> f.pkg,
                 errs |-> errs, copyErrs |-> f.copyErrs,
                 childErrs |-> f.childErrs, nDeps |-> f.nDeps,
                 nSubs |-> f.nSubs, subs |-> f.subs, kids |-> f.kids]
  /\ returned' = returned \cup {f.pkg.ImportPath}
  /\ worked' = IF branch = "goroot" THEN worked
               ELSE worked \cup {f.pkg.ImportPath}
  /\ IF Len(stack) > 1
     THEN LET up == stack[Len(stack) - 1]
          IN /\ stack' = [ SubSeq(stack, 1, Len(stack) - 1)
                           EXCEPT ![Len(stack) - 1] =
                             [up EXCEPT !.errs = up.errs \o errs,
                                        !.childErrs = up.childErrs \o errs] ]
             /\ UNCHANGED << printed, usageShown, exitCode, argIdx, mainErrs >>
     ELSE LET c == checkError(FALSE, errs, exitCode)
          IN /\ stack' = <<>>
             /\ printed' = printed \o c.out
             /\ usageShown' = usageShown + c.usage
             /\ exitCode' = c.exitCode
             /\ argIdx' = argIdx + 1
             /\ mainErrs' = mainErrs \o errs

\* The entry of calls for the call f whose first line gave pkg.
Called(f, pkg, branch) ==
  [ id |-> pkg.ImportPath, path |-> f.path, dir |-> pkg.Dir,
    branch |-> branch, goroot |-> pkg.Goroot, err |-> pkg.err,
    late |-> pkg.ImportPath \in returned,
    lateWork |-> pkg.ImportPath \in worked,
    depth |-> Len(stack), new |-> f.newImportPath,
    from |-> IF Len(stack) > 1 THEN stack[Len(stack) - 1].pkg.ImportPath
             ELSE <<>>,
    arg |-> argIdx, dst |-> NoPath, op0 |-> Len(fsops), op1 |-> Len(fsops) ]

Resolve(f) == findPkg(f.path, f.newImportPath, imports)

\* line 318
AlreadyResolved(res, pkg) == pkg.ImportPath \in res
\* line 325
MustGet(pkg) == pkg.err \/ pkg.Name = ""

\* lines 317-323: the package was resolved before.
CopyPkgAlready ==
  /\ Running /\ Top.at = "enter"
  /\ LET pkg == Resolve(Top)
         f == [Top EXCEPT !.pkg = pkg]
     IN /\ AlreadyResolved(resolved, pkg)
        /\ calls' = Append(calls, Called(f, pkg, "already"))
        /\ Return(f, "already", <<>>)
  /\ UNCHANGED << imports, args, recursive, workspace, resolved, pc,
                  exitStatus, failed, hidden, dest, fsops, lastCopy,
                  attempted, fetched >>

\* line 333 left out
MarkGotNot(res, pkg) == res
\* line 333
MarkGot(res, pkg) == res \cup {pkg.ImportPath}

\* lines 334-337 with the error of getPackage dropped
GetErrsNone(fails, pkg) == <<>>
\* lines 334-337: what the branch returns after getPackage
GetErrs(fails, pkg) ==
  IF fails THEN << FmtErr("get", pkg.ImportPath, 0) >> ELSE <<>>

\* lines 317-337: the package was not found and is downloaded with go get;
\* getPackage (lines 289-302) succeeds or fails.
CopyPkgGet ==
  /\ Running /\ Top.at = "enter"
  /\ LET pkg == Resolve(Top)
         f == [Top EXCEPT !.pkg = pkg]
     IN /\ ~AlreadyResolved(resolved, pkg)
        /\ MustGet(pkg)
        /\ calls' = Append(calls, Called(f, pkg, "get"))
        /\ resolved' = MarkGot(resolved, pkg)
        /\ \E fails \in BOOLEAN :
             /\ failed' = (failed \/ fails)
             /\ fetched' = Append(fetched, [id |-> pkg.ImportPath,
                                            ok |-> ~fails,
                                            call |-> Len(calls) + 1])
             /\ Return(f, "get", GetErrs(fails, pkg))
  /\ UNCHANGED << imports, args, recursive, workspace, pc, exitStatus, hidden,
                  dest, fsops, lastCopy, attempted >>

\* line 344 without the src directory of the workspace
DstNoSrc(ws, pkg) == ws \o pkg.ImportPath
\* line 344: filepath.Join(workspace, "src", pkg.ImportPath)
Dst(ws, pkg) == ws \o <<"src">> \o pkg.ImportPath

\* line 346 testing the errors of copyDir instead of the error of findPkg
CopyAbortsOnErrs(pkg, errs) == errs # <<>>
\* line 346
CopyAborts(pkg, errs) == pkg.err

\* lines 338-349: the package was found outside GOROOT and copyDir copies it to
\* workspace/src/ImportPath.
CopyPkgCopy ==
  /\ Running /\ Top.at = "enter"
  /\ \E pkg \in { Resolve(Top) } :
        /\ ~AlreadyResolved(resolved, pkg)
        /\ ~MustGet(pkg)
        /\ ~pkg.Goroot
        /\ \E faults \in RunFaults(pkg.Dir), dst \in { Dst(workspace, pkg) } :
           \E c \in { copyDir(pkg.Dir, dst, workspace, hidden, faults, dest) } :
             LET errs == c.errs
                 f == [Top EXCEPT !.pkg = pkg, !.errs = errs,
                                  !.copyErrs = errs, !.at = "deps"]
             IN /\ calls' = Append(calls,
                              [Called(f, pkg, "copy") EXCEPT
                                 !.dst = dst,
                                 !.op1 = Len(fsops) + Len(c.ops)])
                /\ failed' = (failed \/ errs # <<>>)
                /\ dest' = c.fs
                /\ fsops' = fsops \o c.ops
                /\ lastCopy' = [src |-> pkg.Dir, dst |-> dst, ws |-> workspace,
                                hid |-> hidden, faults |-> faults,
                                fs0 |-> dest, errs |-> errs, ops |-> c.ops,
                                fs |-> c.fs]
                /\ IF CopyAborts(pkg, errs)
                   THEN /\ Return(f, "copy", errs)
                   ELSE /\ stack' = [stack EXCEPT ![Len(stack)] = f]
                        /\ UNCHANGED << printed, usageShown, exitCode, argIdx,
                                        mainErrs, lastRet, returned, worked >>
  /\ UNCHANGED << imports, args, recursive, workspace, resolved, pc,
                  exitStatus, hidden, attempted, fetched >>

\* lines 317-338 and 371: the package is in GOROOT and is skipped.
CopyPkgGoroot ==
  /\ Running /\ Top.at = "enter"
  /\ LET pkg == Resolve(Top)
         f == [Top EXCEPT !.pkg = pkg]
     IN /\ ~AlreadyResolved(resolved, pkg)
        /\ ~MustGet(pkg)
        /\ pkg.Goroot
        /\ calls' = Append(calls, Called(f, pkg, "goroot"))
        /\ Return(f, "goroot", <<>>)
  /\ UNCHANGED << imports, args, recursive, workspace, resolved, pc,
                  exitStatus, failed, hidden, dest, fsops, lastCopy,
                  attempted, fetched >>

\* The call repeats a call that is still active: same arguments, and
\* resolved as it was when that call was made.  What a call does but for the
\* errors it collects is fixed by its arguments, resolved and the environment,
\* so the new call makes the same call again, and so on without end.
Repeats(path, newImportPath) ==
  \E k \in 1..Len(stack) :
    /\ stack[k].path = path
    /\ stack[k].newImportPath = newImportPath
    /\ stack[k].res0 = resolved

\* A call of copyPkg from the innermost call, which becomes g.  A recursion
\* that never returns is followed up to its first repeated call.
Call(g, path, newImportPath) ==
  IF Repeats(path, newImportPath)
  THEN /\ pc' = "diverged"
       /\ UNCHANGED stack
  ELSE /\ stack' = Append([stack EXCEPT ![Len(stack)] = g],
                          NewCall(path, newImportPath, resolved))
       /\ UNCHANGED pc

\* line 352 with the loop left at the first import that returns errors
MoreDepsUntilError(f) == f.i <= Len(f.pkg.Imports) /\ f.childErrs = <<>>
\* line 352: the loop over pkg.Imports has a next element
MoreDeps(f) == f.i <= Len(f.pkg.Imports)

\* line 352 ranging over pkg.Imports from its last element to its first
DepAtReversed(f) == f.pkg.Imports[Len(f.pkg.Imports) - f.i + 1]
\* line 352: range pkg.Imports gives the imports in the order of the list
DepAt(f) == f.pkg.Imports[f.i]

\* lines 352-354: copyPkg(dep, "") for the next import.
CopyPkgDep ==
  /\ Running /\ Top.at = "deps"
  /\ MoreDeps(Top)
  /\ Call([Top EXCEPT !.i = Top.i + 1, !.nDeps = Top.nDeps + 1,
                      !.kids = Append(Top.kids, <<DepAt(Top), <<>> >>)],
          DepAt(Top), <<>>)
  /\ UNCHANGED << imports, args, recursive, workspace, resolved, exitCode,
                  argIdx, printed, usageShown, exitStatus, calls, returned,
                  worked, mainErrs, failed, lastRet, hidden, dest, fsops,
                  lastCopy, attempted, fetched >>

\* line 355
MarkCopied(res, pkg) == res \cup {pkg.ImportPath}

\* line 359 with the subpackages looked for whatever the flag says
DescendsAlways(rec) == TRUE
\* line 359: if recursive
Descends(rec) == rec

\* lines 355-361: after the loop the package is marked; with -recursive the
\* subpackages are looked for, without it the call returns.
CopyPkgDepsDone ==
  /\ Running /\ Top.at = "deps"
  /\ ~MoreDeps(Top)
  /\ resolved' = MarkCopied(resolved, Top.pkg)
  /\ IF Descends(recursive)
     THEN /\ stack' = [stack EXCEPT ![Len(stack)] =
                 [Top EXCEPT !.at = "subs",
                             !.subs = findSubPkgs(Top.pkg.Dir,
                                        Top.pkg.ImportPath, workspace,
                                        imports)]]
          /\ UNCHANGED << printed, usageShown, exitCode, argIdx, mainErrs,
                          lastRet, returned, worked >>
     ELSE Return(Top, "copy", Top.errs)
  /\ UNCHANGED << imports, args, recursive, workspace, pc, exitStatus, calls,
                  failed, hidden, dest, fsops, lastCopy, attempted, fetched >>

\* lines 361-367: copyPkg(sub.path, sub.newImportPath) for the next subpackage.
CopyPkgSub ==
  /\ Running /\ Top.at = "subs"
  /\ Top.j <= Len(Top.subs)
  /\ Call([Top EXCEPT !.j = Top.j + 1, !.nSubs = Top.nSubs + 1,
                      !.kids = Append(Top.kids,
                                 << Top.subs[Top.j].path,
                                    Top.subs[Top.j].newImportPath >>)],
          Top.subs[Top.j].path, Top.subs[Top.j].newImportPath)
  /\ UNCHANGED << imports, args, recursive, workspace, resolved, exitCode,
                  argIdx, printed, usageShown, exitStatus, calls, returned,
                  worked, mainErrs, failed, lastRet, hidden, dest, fsops,
                  lastCopy, attempted, fetched >>

\* lines 368-372: the return after the last subpackage.
CopyPkgSubsDone ==
  /\ Running /\ Top.at = "subs"
  /\ Top.j > Len(Top.subs)
  /\ Return(Top, "copy", Top.errs)
  /\ UNCHANGED << imports, args, recursive, workspace, resolved, pc,
                  exitStatus, calls, failed, hidden, dest, fsops, lastCopy,
                  attempted, fetched >>

Next ==
  \/ Startup
  \/ NextArg
  \/ Exit
  \/ CopyPkgAlready
  \/ CopyPkgGet
  \/ CopyPkgCopy
  \/ CopyPkgGoroot
  \/ CopyPkgDep
  \/ CopyPkgDepsDone
  \/ CopyPkgSub
  \/ CopyPkgSubsDone

Spec == Init /\ [][Next]_vars

\* Runs with one import specifier, with and without -hidden, the workspace
\* outside or inside the working directory.
InitTree == /\ InitAll /\ Len(args) = 2
            /\ args[1] \in { <<"/", "ws">>, NestedWorkspace }
TreeSpec == InitTree /\ [][Next]_vars

\* One call copyDir(src, dst) on its own, as the tests make it: on an empty
\* destination, on the destination a first call has left, and below a
\* directory that cannot be written (0544).
DirSources == { GoPathSrc \o A, GoPathSrc \o <<"A", "s">>, GoPathSrc \o B,
                Cwd \o <<".h", "p">>, Cwd }
DirStart(src, dst, ws, hid) ==
  { NoFs, copyDir(src, dst, ws, hid, {}, NoFs).fs,
    [ p \in {Parent(dst)} |-> D(p, 356) ] }

InitDir ==
  /\ imports = [ d \in PkgDirs |-> <<>> ]
  /\ args = <<>>
  /\ recursive = FALSE
  /\ workspace = NoPath
  /\ resolved = {}
  /\ exitCode = 0
  /\ pc = "copyDir"
  /\ argIdx = 2
  /\ stack = <<>>
  /\ printed = <<>>
  /\ usageShown = 0
  /\ exitStatus = NoExit
  /\ calls = <<>>
  /\ returned = {}
  /\ worked = {}
  /\ mainErrs = <<>>
  /\ failed = FALSE
  /\ lastRet = NoRet
  /\ hidden \in BOOLEAN
  /\ fsops = <<>>
  /\ attempted = <<>>
  /\ fetched = <<>>
  /\ \E src \in DirSources, ws \in { <<"/", "ws">>, Abs(NestedWorkspace) } :
       LET dst == ws \o <<"src", "d">>
       IN \E fs0 \in DirStart(src, dst, ws, hidden),
             faults \in FaultSets(Sites(src, FaultKinds), MaxFaults) :
            /\ dest = fs0
            /\ lastCopy = [NoCopy EXCEPT !.src = src, !.dst = dst,
                                         !.ws = ws, !.hid = hidden,
                                         !.faults = faults, !.fs0 = fs0,
                                         !.fs = fs0]

\* copyDir(src, dst) is called and returns.
CopyDirCall ==
  /\ pc = "copyDir"
  /\ LET c == copyDir(lastCopy.src, lastCopy.dst, lastCopy.ws, lastCopy.hid,
                      lastCopy.faults, dest)
     IN /\ lastCopy' = [lastCopy EXCEPT !.errs = c.errs, !.ops = c.ops,
                                        !.fs = c.fs]
        /\ dest' = c.fs
        /\ fsops' = c.ops
  /\ pc' = "copied"
  /\ UNCHANGED << imports, args, recursive, workspace, resolved, exitCode,
                  argIdx, stack, printed, usageShown, exitStatus, calls,
                  returned, worked, mainErrs, failed, lastRet, hidden,
                  attempted, fetched >>

DirSpec == InitDir /\ [][CopyDirCall]_vars

\* One call findSubPkgs(pkg.Dir, pkg.ImportPath) on its own, for every
\* package copyPkg can copy (found, outside GOROOT), with and without a new
\* import path, and for a workspace outside the directories read, below the
\* working directory and in the working directory itself ("go-pcp . m:.").
FindBases == { d \in PkgDirs : ~IsPrefix(GoRootSrc, d) }
FindWorkspaces == { <<"/", "ws">>, Abs(NestedWorkspace), Abs(<<".">>) }
InitFind ==
  /\ imports \in ImportWorlds(PkgDirs)
  /\ args = <<>>
  /\ recursive = TRUE
  /\ workspace \in FindWorkspaces
  /\ resolved = {}
  /\ exitCode = 0
  /\ pc = "findSubPkgs"
  /\ argIdx = 2
  /\ stack = <<>>
  /\ printed = <<>>
  /\ usageShown = 0
  /\ exitStatus = NoExit
  /\ calls = <<>>
  /\ returned = {}
  /\ worked = {}
  /\ mainErrs = <<>>
  /\ failed = FALSE
  /\ hidden = FALSE
  /\ dest = NoFs
  /\ fsops = <<>>
  /\ lastCopy = NoCopy
  /\ attempted = <<>>
  /\ fetched = <<>>
  /\ \E base \in FindBases, new \in { <<>>, <<"m">> } :
       \E pkg \in { findPkg(base, new, imports) } :
         /\ ~pkg.err
         /\ lastRet = [NoRet EXCEPT !.id = pkg.ImportPath, !.pkg = pkg]

\* line 360: findSubPkgs(pkg.Dir, pkg.ImportPath) is called and returns.
FindSubPkgsCall ==
  /\ pc = "findSubPkgs"
  /\ lastRet' = [lastRet EXCEPT
                   !.subs = findSubPkgs(lastRet.pkg.Dir,
                                        lastRet.pkg.ImportPath, workspace,
                                        imports)]
  /\ pc' = "found"
  /\ UNCHANGED << imports, args, recursive, workspace, resolved, exitCode,
                  argIdx, stack, printed, usageShown, exitStatus, calls,
                  returned, worked, mainErrs, failed, hidden, dest, fsops,
                  lastCopy, attempted, fetched >>

FindSpec == InitFind /\ [][FindSubPkgsCall]_vars

\* Runs with one import specifier.  main is one sequential process: it takes
\* its next step whenever it has one.
InitOne == Init /\ Len(args) = 2 /\ args[1] = <<"/", "ws">>
TermSpec == InitOne /\ [][Next]_vars /\ WF_vars(Next)

\* ------------------------------------------------------------ properties
Range(q) == { q[k] : k \in 1..Len(q) }
Work == { "copy", "get" }
CallIdx == 1..Len(calls)

\* C1: a copyPkg traversal started from any root returns, whatever the
\* declared dependencies are (cycles included), so every run reaches the end
\* of main.
C1_Terminates == <>(pc = "exited")

\* C2: in one run no import path is copied or fetched more than once.
C2_AtMostOnce ==
  \A m, n \in CallIdx :
    (m < n /\ calls[m].branch \in Work /\ calls[n].branch \in Work)
      => calls[m].id # calls[n].id

\* C3 as stated: a copyPkg call for an import path for which an earlier call
\* has returned copies nothing, fetches nothing and does not recurse.
C3_NoWorkAfterReturn ==
  \A n \in CallIdx : calls[n].late => calls[n].branch \notin Work

\* C3 amended: a copyPkg call for an import path for which an earlier call,
\* one not skipped as a GOROOT package, has returned takes the "already
\* resolved" return of line 322: no copy, no fetch, no recursion, no errors.
C3_NoWorkAfterWork ==
  \A n \in CallIdx : calls[n].lateWork => calls[n].branch = "already"

C3_Witness ==
  \E m, n \in CallIdx :
    /\ m < n /\ calls[n].lateWork /\ calls[n].branch = "already"
    /\ calls[m].id = calls[n].id /\ calls[m].branch = "get"
    /\ lastRet.id = calls[n].id /\ lastRet.branch = "already"
    /\ lastRet.errs = <<>>

\* C4: a request whose metadata has the GOROOT flag is never copied and never
\* fetched.
C4_StandardNeverCopiedOrFetched ==
  \A n \in CallIdx : calls[n].goroot => calls[n].branch \notin Work

\* C5: a call whose copyDir returned errors has, when it returns, called
\* copyPkg for every import and (with -recursive) for every subpackage found,
\* and returns the copy errors followed by all the errors of those calls.
C5_CopyFailureContinues ==
  (lastRet.branch = "copy" /\ lastRet.copyErrs # <<>>) =>
    /\ lastRet.nDeps = Len(lastRet.pkg.Imports)
    /\ recursive =>
         lastRet.nSubs = Len(findSubPkgs(lastRet.pkg.Dir, lastRet.id,
                                         workspace, imports))
    /\ lastRet.errs = lastRet.copyErrs \o lastRet.childErrs

C5_Witness ==
  /\ lastRet.branch = "copy" /\ lastRet.copyErrs # <<>>
  /\ lastRet.nDeps = 2 /\ lastRet.nSubs > 0
  /\ lastRet.childErrs # <<>>
  /\ Len(lastRet.errs) > Len(lastRet.childErrs)

\* C6: a failing dependency stops nothing: in every copying call the imports
\* before the current one have all been passed to copyPkg, a run past startup
\* ends only after the last specifier, and at the end every import of every
\* copied package has been passed to copyPkg and been copied, fetched or
\* skipped as a GOROOT package.
C6_SiblingsAttempted ==
  /\ \A k \in 1..Len(stack) :
       stack[k].at = "deps" => stack[k].nDeps = stack[k].i - 1
  /\ (pc = "exited" /\ workspace # NoPath) =>
       /\ argIdx = Len(args) + 1 /\ stack = <<>>
       /\ \A n \in CallIdx :
            calls[n].branch = "copy" =>
              \A d \in Range(imports[calls[n].dir]) :
                /\ \E m \in CallIdx : m > n /\ calls[m].path = d
                /\ \E m \in CallIdx :
                     calls[m].id = d /\ calls[m].branch # "already"

C6_Witness ==
  /\ pc = "exited"
  /\ FmtErr("get", E, 0) \in Range(mainErrs)
  /\ \E n, m \in CallIdx :
       /\ calls[n].id = A /\ calls[n].branch = "copy"
       /\ imports[calls[n].dir] = <<E, B>>
       /\ m > n /\ calls[m].id = B /\ calls[m].branch = "copy"

\* C7: every error copyPkg returns to main is printed.
C7_AllPrinted == \A k \in 1..Len(mainErrs) : mainErrs[k] \in Range(printed)

\* C8: a run past startup with a malformed import specifier ends with exit
\* status 2.
C8_MalformedSpecExits2 ==
  ( /\ pc = "exited" /\ workspace # NoPath
    /\ \E k \in 2..Len(args) : parseImport(args[k]).err.type = "syntaxErr" )
  => exitStatus = 2

\* C9: a run past startup in which an os.Stat of a specifier's directory, a
\* copyDir or a getPackage failed ends with exit status 3, and exitCode, once
\* 3, stays 3.
C9_ExitStatus3 ==
  /\ [](( pc = "exited" /\ workspace # NoPath /\ failed ) => exitStatus = 3)
  /\ [][exitCode = 3 => exitCode' = 3]_vars

C9_Witness ==
  /\ pc = "exited" /\ exitStatus = 3 /\ failed
  /\ lastRet.branch = "copy" /\ lastRet.errs = <<>>
  /\ Len(calls) > 1 /\ printed # <<>>

\* C10: for a call made by main, the sources come from the directory of the
\* specifier if a package is found there, else from GOPATH if the import path
\* is found there, and go get is used only if both fail.
C10_LookupOrder ==
  \A n \in CallIdx :
    LET c == calls[n]
        there == (IsAbs(c.path) \/ IsLocalImport(c.path))
                 /\ HasGoFiles(Abs(c.path))
        g == Import(c.id, NoPath, imports)
    IN (c.depth = 1 /\ c.branch \in Work) =>
         IF there THEN c.branch = "copy" /\ c.dir = Abs(c.path)
         ELSE IF ~MustGet(g) THEN c.branch = "copy" /\ c.dir = g.Dir
         ELSE c.branch = "get"

\* ------------------------------------------------------------ C11..C20
Started == workspace # NoPath
Done == pc = "exited" /\ Started
Web == <<"W">>

\* C11: without -recursive no subpackage is ever looked for: no call is at
\* its subpackages or has any, every copyPkg call but those of main is for a
\* declared import of a package that was copied, and at the end every declared
\* import of a copied package has been visited; so an import that only a
\* subpackage of a root declares is neither copied nor fetched.
C11_OnlyDeclaredDeps ==
  ~recursive =>
    /\ \A k \in 1..Len(stack) : stack[k].at # "subs" /\ stack[k].subs = <<>>
    /\ lastRet.nSubs = 0 /\ lastRet.subs = <<>>
    /\ \A n \in CallIdx :
         calls[n].depth > 1 =>
           /\ calls[n].new = <<>>
           /\ \E m \in 1..(n - 1) :
                /\ calls[m].branch = "copy"
                /\ calls[m].depth = calls[n].depth - 1
                /\ calls[m].id = calls[n].from
                /\ calls[n].path \in Range(imports[calls[m].dir])
    /\ Done =>
         \A m \in CallIdx :
           calls[m].branch = "copy" =>
             \A d \in Range(imports[calls[m].dir]) :
               \E n \in (m + 1)..Len(calls) :
                 calls[n].path = d /\ calls[n].from = calls[m].id

\* go-pcp -recursive=false ws A, the subpackage A/s alone importing W: A was
\* copied and W was never asked for.
C11_Witness ==
  /\ Done /\ ~recursive /\ args[2] = A
  /\ imports[GoPathSrc \o <<"A", "s">>] = <<A, Web>>
  /\ findSubPkgs(GoPathSrc \o A, A, workspace, imports) # <<>>
  /\ \E n \in CallIdx : calls[n].id = A /\ calls[n].branch = "copy"
  /\ \A n \in CallIdx : calls[n].id # Web /\ calls[n].path # Web

\* The operations of the copyDir call of the copyPkg call n.
OpsOf(n) == { fsops[i] : i \in (calls[n].op0 + 1)..calls[n].op1 }

\* C12: a copyPkg call with the directory D and the override I has I as the
\* import path of its package; when it copies, it copies to workspace/src/I,
\* every entry made there is the entry of D with the same relative path, and
\* at the end I, and no import path other than those of the calls, is in
\* resolved.
C12_OverrideIsIdentifier ==
  /\ \A n \in CallIdx :
       calls[n].new # <<>> =>
         /\ calls[n].id = calls[n].new
         /\ calls[n].branch = "copy" =>
              /\ calls[n].dir = calls[n].path
              /\ calls[n].dst = workspace \o <<"src">> \o calls[n].new
              /\ \A o \in OpsOf(n) :
                   /\ IsPrefix(calls[n].path, o.src)
                   /\ o.path = calls[n].dst \o Rel(calls[n].path, o.src)
              /\ (Done /\ ~calls[n].err) => calls[n].new \in resolved
  /\ resolved \subseteq { calls[n].id : n \in CallIdx }

\* go-pcp ws fmt:. has copied x.go of the working directory to
\* ws/src/fmt/x.go and marked fmt.
C12_Witness ==
  /\ Done /\ <<"fmt">> \in resolved
  /\ \E n \in CallIdx :
       /\ calls[n].new = <<"fmt">> /\ calls[n].path = Cwd
       /\ calls[n].branch = "copy"
       /\ \E o \in OpsOf(n) : o.op = "write" /\ o.src = Cwd \o <<"x.go">>
  /\ LET q == workspace \o <<"src", "fmt", "x.go">>
     IN q \in DOMAIN dest /\ dest[q].data = "x"

\* The entries that were there before the run.
EnvPaths == { Tree[k].path : k \in TreeIdx }

SubsSeen ==
  UNION { Range(stack[k].subs) : k \in 1..Len(stack) } \cup Range(lastRet.subs)

\* C14: whatever directory is walked, nothing at or below the workspace is
\* copied by copyDir or given as a subpackage by findSubPkgs, and no copyPkg
\* call is for a directory of the workspace, so that the run never copies its
\* own output.
C14_WorkspaceSkipped ==
  Started =>
    /\ \A i \in 1..Len(fsops) : ~IsPrefix(workspace, fsops[i].src)
    /\ \A sub \in SubsSeen : ~IsPrefix(workspace, sub.path)
    /\ \A n \in CallIdx :
         ~IsPrefix(workspace, calls[n].path) /\ ~IsPrefix(workspace, calls[n].dir)

\* go-pcp ws fmt:. in the working directory, whose directory ws holds the
\* package old: the working directory was copied, its subpackages were looked
\* for and found, and the run has ended.
C14_Witness ==
  /\ Done /\ recursive /\ workspace = Abs(NestedWorkspace)
  /\ HasSubdir(Cwd, workspace)
  /\ HasGoFiles(workspace \o <<"src", "old">>)
  /\ \E n \in CallIdx : calls[n].dir = Cwd /\ calls[n].branch = "copy"
  /\ \E i \in 1..Len(fsops) : fsops[i].src = Cwd \o <<"x.go">>
  /\ lastRet.pkg.Dir = Cwd /\ lastRet.subs # <<>>

\* The entry at path is hidden or lies below a hidden directory.
InHidden(path) == \E k \in 1..Len(path) : path[k] \in DotNames

\* C15: without -hidden nothing in the workspace comes from a hidden entry or
\* from below a hidden directory, with or without -recursive; with -hidden the
\* hidden entries of a directory that was copied without error are there.
C15_HiddenLeftOut ==
  /\ ~hidden => \A i \in 1..Len(fsops) : ~InHidden(fsops[i].src)
  /\ hidden =>
       \A n \in CallIdx :
         (calls[n].branch = "copy" /\ calls[n].dir = Cwd
            /\ calls[n].op1 - calls[n].op0 = 2 * Cardinality(
                  { k \in TreeIdx : IsPrefix(Cwd, Tree[k].path)
                                    /\ ~IsPrefix(workspace, Tree[k].path) }))
           => \E o \in OpsOf(n) : o.src = Cwd \o <<".env">>

\* The entries of src that copyDir(src, dst) does not skip: those not hidden
\* nor below a hidden directory of the walk (unless hid), and not at or below
\* the workspace.
Copied(src, ws, hid) ==
  { k \in TreeIdx :
      /\ IsPrefix(src, Tree[k].path)
      /\ hid \/ \A m \in Len(src)..Len(Tree[k].path) :
                  Tree[k].path[m] \notin DotNames
      /\ ~IsPrefix(ws, Tree[k].path) }

\* C16: when copyDir(src, dst) returns no error, every entry of src that is
\* not skipped has its counterpart at the same relative path below dst: a
\* directory for a directory, a file with the same contents for a file, and
\* the same permission bits.
C16_CopyIsFaithful ==
  (pc = "copied" /\ lastCopy.errs = <<>>) =>
    \A k \in Copied(lastCopy.src, lastCopy.ws, lastCopy.hid) :
      LET e == Tree[k]
          q == lastCopy.dst \o Rel(lastCopy.src, e.path)
      IN /\ q \in DOMAIN lastCopy.fs
         /\ lastCopy.fs[q].dir = e.dir
         /\ lastCopy.fs[q].mode = e.mode
         /\ ~e.dir => lastCopy.fs[q].data = e.data

\* copyDir has copied the package A without error: the directory s with its
\* mode 0700 and the read-only file s/s.go are in the destination.
C16_Witness ==
  /\ pc = "copied" /\ lastCopy.errs = <<>>
  /\ lastCopy.src = GoPathSrc \o A
  /\ LET q == lastCopy.dst \o <<"s">>
     IN /\ q \in DOMAIN lastCopy.fs /\ lastCopy.fs[q].mode = 448
        /\ lastCopy.fs[q \o <<"s.go">>].mode = 292
        /\ lastCopy.fs[q \o <<"s.go">>].data = "s"

\* The entries of the walk of lastCopy.src above entry k.
Above(k) ==
  { m \in TreeIdx : /\ IsPrefix(lastCopy.src, Tree[m].path)
                    /\ HasSubdir(Tree[m].path, Tree[k].path) }
\* The walk function is called without error for entry k.
Visited(k) ==
  /\ k \in Copied(lastCopy.src, lastCopy.ws, lastCopy.hid)
  /\ \A m \in Above(k) \cup {k} : Fault(m, "walk") \notin lastCopy.faults
CopyErr(what, path) == FmtErr(what, path, 0) \in Range(lastCopy.errs)
DstOf(k) == lastCopy.dst \o Rel(lastCopy.src, Tree[k].path)

\* C17: copyDir goes on after every failure.  Each operation that fails on
\* an entry the walk reaches (for Chmod: an entry that was pushed on the
\* stack) adds its error to the list returned, every entry
\* the walk function is called for and that no failure concerns is copied and
\* given its permissions all the same, and when the directory above the
\* destination cannot be written the list returned is not empty.
C17_CopyDirGoesOn ==
  pc = "copied" =>
    /\ \A f \in lastCopy.faults :
         LET path == Tree[f.k].path
         IN /\ (f.kind = "walk" /\ IsPrefix(lastCopy.src, path)
                  /\ \A m \in Above(f.k) : Visited(m))
               => CopyErr("traverse", path)
            /\ (f.kind = "make" /\ Visited(f.k))
               => CopyErr(IF Tree[f.k].dir THEN "mkdir" ELSE "copyfile", path)
            /\ (f.kind = "chmod" /\ Visited(f.k) /\ lastCopy.fs0 = NoFs
                  /\ (Tree[f.k].dir => Fault(f.k, "make") \notin lastCopy.faults))
               => CopyErr("chmod", DstOf(f.k))
    /\ lastCopy.fs0 = NoFs =>
         \A k \in TreeIdx :
           (Visited(k) /\ \A m \in Above(k) \cup {k} :
                            Fault(m, "make") \notin lastCopy.faults)
             => /\ \E i \in 1..Len(lastCopy.ops) :
                     /\ lastCopy.ops[i].src = Tree[k].path
                     /\ lastCopy.ops[i].path = DstOf(k)
                     /\ lastCopy.ops[i].op \in {"mkdir", "write"}
                /\ Fault(k, "chmod") \notin lastCopy.faults
                     => lastCopy.fs[DstOf(k)].mode = Tree[k].mode
    /\ (/\ Parent(lastCopy.dst) \in DOMAIN lastCopy.fs0
        /\ ~OwnerWrite(lastCopy.fs0[Parent(lastCopy.dst)].mode)
        /\ \E k \in TreeIdx : Visited(k))
       => lastCopy.errs # <<>>

\* copyDir of the package A with the copy of a.go failing: the error is
\* returned and the file s/s.go, which the walk comes to later, is copied.
C17_Witness ==
  /\ pc = "copied" /\ lastCopy.src = GoPathSrc \o A /\ lastCopy.fs0 = NoFs
  /\ \E f \in lastCopy.faults :
       f.kind = "make" /\ Tree[f.k].path = GoPathSrc \o <<"A", "a.go">>
  /\ CopyErr("copyfile", GoPathSrc \o <<"A", "a.go">>)
  /\ \E i \in 1..Len(lastCopy.ops) :
       /\ lastCopy.ops[i].op = "write"
       /\ lastCopy.ops[i].src = GoPathSrc \o <<"A", "s", "s.go">>

\* C18: a run whose workspace cannot be made ends at once: with status 2 and
\* the usage text for the empty path, with status 1 for a path that cannot be
\* made, and in both cases without having parsed a specifier, called copyPkg,
\* marked an import path or made anything; and no run does any of these
\* before the workspace is made.
C18_StartupIsFatal ==
  /\ ~Started =>
       /\ attempted = <<>> /\ calls = <<>> /\ stack = <<>>
       /\ resolved = {} /\ fsops = <<>> /\ dest = NoFs
  /\ (pc # "start" /\ Len(args) >= 2 /\ args[1] = <<>>) =>
       /\ pc = "exited" /\ exitStatus = 2 /\ usageShown = 1
       /\ printed = << SyntaxErr("workspace", <<>>) >>
       /\ ~Started
  /\ (pc # "start" /\ Len(args) >= 2 /\ args[1] = BadPath) =>
       /\ pc = "exited" /\ exitStatus = 1 /\ usageShown = 0
       /\ ~Started

\* go-pcp "" A fmt has ended with status 2.
C18_Witness ==
  /\ pc = "exited" /\ exitStatus = 2
  /\ args = << <<>>, A, <<"fmt">> >>
  /\ calls = <<>> /\ attempted = <<>>

\* C19: once the workspace is made the specifiers are parsed one after the
\* other in the order of the command line, whatever errors the earlier ones
\* gave; copyPkg is called from main only for a specifier that was parsed;
\* the process ends with status 0 or 3 only, and when it has ended every
\* specifier has been parsed.
C19_AllSpecifiersAttempted ==
  Started =>
    /\ \A k \in 1..Len(attempted) : attempted[k] = k + 1
    /\ Len(attempted) <= Len(args) - 1
    /\ \A n \in CallIdx : calls[n].arg = attempted[Len(attempted)]
                             \/ calls[n].arg + 1 \in Range(attempted)
    /\ exitStatus \in {NoExit, 0, 3}
    /\ pc = "exited" => /\ Len(attempted) = Len(args) - 1
                        /\ argIdx = Len(args) + 1

\* go-pcp ws :/home/x A: the first specifier is malformed, the second was
\* parsed and copied, and the process has ended.
C19_Witness ==
  /\ Done /\ Len(args) = 3
  /\ args[2] = <<":", "/", "home", "x">> /\ args[3] = A
  /\ attempted = <<2, 3>>
  /\ \E n \in CallIdx : calls[n].arg = 3 /\ calls[n].branch = "copy"
  /\ printed # <<>> /\ usageShown = 1

\* The calls a copyPkg call that copies makes, in order: one for each import
\* of pkg, then one for each subpackage of subs.
DepCalls(pkg) == [ k \in 1..Len(pkg.Imports) |-> << pkg.Imports[k], <<>> >> ]
SubCalls(subs) ==
  [ k \in 1..Len(subs) |-> << subs[k].path, subs[k].newImportPath >> ]

\* C20: in every copyPkg call that copies, copyDir has returned before the
\* first call for an import, the calls for the imports are made in the order
\* of pkg.Imports and all of them before findSubPkgs is called, and the calls
\* for the subpackages are made in the order in which findSubPkgs gave them.
\* The order of the calls is thus a function of the command line and of the
\* environment, the same in every run on the same inputs.
C20_FixedOrder ==
  /\ \A k \in 1..Len(stack) :
       LET f == stack[k]
       IN /\ f.at = "enter" => f.kids = <<>>
          /\ f.at = "deps" =>
               /\ f.kids = SubSeq(DepCalls(f.pkg), 1, f.i - 1)
               /\ f.subs = <<>>
          /\ f.at = "subs" =>
               /\ f.subs = findSubPkgs(f.pkg.Dir, f.pkg.ImportPath, workspace,
                                       imports)
               /\ f.kids = DepCalls(f.pkg)
                             \o SubSeq(SubCalls(f.subs), 1, f.j - 1)
  /\ (lastRet.branch = "copy" /\ ~lastRet.pkg.err) =>
       lastRet.kids =
         DepCalls(lastRet.pkg) \o
         (IF recursive
          THEN SubCalls(findSubPkgs(lastRet.pkg.Dir, lastRet.pkg.ImportPath,
                                    workspace, imports))
          ELSE <<>>)
  /\ \A n \in CallIdx :
       calls[n].depth > 1 =>
         \E m \in 1..(n - 1) :
           /\ calls[m].branch = "copy"
           /\ calls[m].depth = calls[n].depth - 1
           /\ calls[m].id = calls[n].from
           /\ calls[m].op1 <= calls[n].op0

\* go-pcp ws A has ended: the call for A has made its calls for the two
\* imports of A and then for the subpackage A/s.
C20_Witness ==
  /\ Done /\ recursive /\ Len(args) = 2 /\ args[2] = A
  /\ lastRet.id = A /\ lastRet.branch = "copy"
  /\ Len(lastRet.pkg.Imports) = 2
  /\ lastRet.kids = << << lastRet.pkg.Imports[1], <<>> >>,
                       << lastRet.pkg.Imports[2], <<>> >>,
                       << GoPathSrc \o <<"A", "s">>, <<"A", "s">> >> >>

\* ------------------------------------------------------------ C21..C26
FetchIdx == 1..Len(fetched)
\* The call that made the call n: the last call before n one level up.
Caller(n) ==
  CHOOSE m \in 1..(n - 1) :
    /\ calls[m].depth = calls[n].depth - 1
    /\ \A q \in (m + 1)..(n - 1) : calls[q].depth # calls[n].depth - 1

\* C21: a copyPkg call that takes the branch of line 325 calls getPackage
\* once, with the import path of the package; the import path is in resolved
\* afterwards whether go get failed or not; the call returns the one error of
\* getPackage or no error, and it calls copyPkg for no import and for no
\* subpackage.
C21_GetBranch ==
  /\ \A n \in CallIdx :
       calls[n].branch = "get" <=>
         \E k \in FetchIdx :
           /\ fetched[k].call = n
           /\ fetched[k].id = calls[n].id
           /\ \A q \in FetchIdx : fetched[q].call = n => q = k
  /\ \A k \in FetchIdx : /\ fetched[k].call \in CallIdx
                          /\ fetched[k].id \in resolved
  /\ \A n \in CallIdx : calls[n].depth > 1 => calls[Caller(n)].branch # "get"
  /\ lastRet.branch = "get" =>
       /\ fetched # <<>>
       /\ fetched[Len(fetched)].id = lastRet.id
       /\ lastRet.errs = IF fetched[Len(fetched)].ok THEN <<>>
                         ELSE << FmtErr("get", lastRet.id, 0) >>
       /\ lastRet.kids = <<>> /\ lastRet.nDeps = 0 /\ lastRet.nSubs = 0
       /\ lastRet.id \in resolved

\* go-pcp ws A, where A imports E: go get E has failed, and the call for E
\* has returned its error.
C21_Witness ==
  /\ lastRet.branch = "get" /\ lastRet.id = E
  /\ Len(lastRet.errs) = 1
  /\ ~fetched[Len(fetched)].ok
  /\ E \in resolved
  /\ Len(stack) = 1 /\ Top.pkg.ImportPath = A

\* The directories below base, at any depth.
SubDirs(base) ==
  { Tree[k].path : k \in { n \in TreeIdx : Tree[n].dir
                                           /\ HasSubdir(base, Tree[n].path) } }
\* The request for the directory d below base.
SubRequest(base, baseId, d) ==
  [path |-> d, newImportPath |-> baseId \o Rel(base, d)]
\* d is a package under the import path findSubPkgs gives it.
Resolves(base, baseId, d) ==
  ~findPkg(d, baseId \o Rel(base, d), imports).err
NoRepeat(q) == Cardinality(Range(q)) = Len(q)

\* C22 as stated: findSubPkgs returns one request for each directory below
\* baseDir that is a package and does not lie in the subtree of the
\* workspace, and nothing else.
C22_SubPkgsOutsideWorkspace ==
  pc = "found" =>
    LET base == lastRet.pkg.Dir
        baseId == lastRet.pkg.ImportPath
    IN /\ NoRepeat(lastRet.subs)
       /\ Range(lastRet.subs) =
            { SubRequest(base, baseId, d) :
                d \in { x \in SubDirs(base) :
                          /\ ~IsPrefix(workspace, x)
                          /\ Resolves(base, baseId, x) } }

\* C22, amended: findSubPkgs returns one request for each directory below
\* baseDir that is a package, the workspace and what lies below it left out
\* when the workspace is itself a directory below baseDir, and nothing else;
\* the import path of a request is that of the base followed by the relative
\* path, and a package below a directory that is no package is returned.
C22_SubPkgs ==
  pc = "found" =>
    LET base == lastRet.pkg.Dir
        baseId == lastRet.pkg.ImportPath
    IN /\ NoRepeat(lastRet.subs)
       /\ Range(lastRet.subs) =
            { SubRequest(base, baseId, d) :
                d \in { x \in SubDirs(base) :
                          /\ ~(HasSubdir(base, workspace)
                               /\ IsPrefix(workspace, x))
                          /\ Resolves(base, baseId, x) } }

\* findSubPkgs has returned for the working directory copied as m, with the
\* workspace ws in it: the package .h/p, below the directory .h that is no
\* package, is returned as m/.h/p, and nothing of ws is.
C22_Witness ==
  /\ pc = "found"
  /\ lastRet.pkg.Dir = Cwd /\ lastRet.pkg.ImportPath = <<"m">>
  /\ workspace = Abs(NestedWorkspace)
  /\ lastRet.subs = << [path |-> Cwd \o <<".h", "p">>,
                        newImportPath |-> <<"m", ".h", "p">>] >>

\* The place in the walk of the entry path of the source.
TreePos(path) == CHOOSE k \in TreeIdx : Tree[k].path = path
CopyOps == 1..Len(lastCopy.ops)
Makes == { "mkdir", "write" }

\* C23: in the operations of one copyDir call every MkdirAll and every write
\* of a file comes before every Chmod, and the Chmod calls are made in the
\* reverse of the order in which the walk came to the entries, so that what
\* lies in a directory has its permissions set before the directory has.
C23_ChmodAfterWalkInReverse ==
  pc = "copied" =>
    /\ \A i, j \in CopyOps :
         (lastCopy.ops[i].op = "chmod" /\ lastCopy.ops[j].op \in Makes)
           => j < i
    /\ \A i, j \in CopyOps :
         (i < j /\ lastCopy.ops[i].op = "chmod" /\ lastCopy.ops[j].op = "chmod")
           => TreePos(lastCopy.ops[j].src) < TreePos(lastCopy.ops[i].src)
    /\ \A i, j \in CopyOps :
         (/\ lastCopy.ops[i].op = "chmod" /\ lastCopy.ops[j].op = "chmod"
          /\ HasSubdir(lastCopy.ops[j].path, lastCopy.ops[i].path))
           => i < j

\* copyDir has copied the package A without an error: the directory A/t,
\* made last, has its permissions set first and the directory A itself last,
\* after a.go, s and s/s.go.
C23_Witness ==
  /\ pc = "copied" /\ lastCopy.errs = <<>> /\ lastCopy.fs0 = NoFs
  /\ lastCopy.src = GoPathSrc \o A
  /\ Len(lastCopy.ops) = 10
  /\ lastCopy.ops[5].op = "mkdir"
  /\ lastCopy.ops[6].op = "chmod"
  /\ lastCopy.ops[6].src = GoPathSrc \o <<"A", "t">>
  /\ lastCopy.ops[10].op = "chmod"
  /\ lastCopy.ops[10].src = GoPathSrc \o A

\* The call n is for a package found on disk.
OnDisk(n) == ~calls[n].err /\ calls[n].dir # NoPath
\* The call n is the first for its import path.
FirstFor(n) == \A q \in 1..(n - 1) : calls[q].id # calls[n].id

\* C24: when a copyPkg call for a package found in one directory comes after
\* the first call for the same import path, which found the package in
\* another directory, the later call takes the return of line 322 without an
\* error, and at the end of the run all that was copied for the import path
\* was copied from the directory of the first call.
C24_FirstLocationWins ==
  \A m, n \in CallIdx :
    ( /\ m < n /\ FirstFor(m) /\ calls[n].id = calls[m].id
      /\ OnDisk(m) /\ OnDisk(n) /\ calls[m].dir # calls[n].dir )
      => /\ calls[n].branch = "already"
         /\ Done => \A q \in CallIdx :
                      (calls[q].id = calls[m].id /\ calls[q].branch = "copy")
                        => calls[q].dir = calls[m].dir

\* C25: in the operations of a whole run no file is written and no entry is
\* made at a path of the destination, or in a directory of it, after os.Chmod
\* has set the permissions of that path, and a copyDir call in which no
\* operation fails for a reason outside the run returns no error.
C25_NoWriteAfterChmod ==
  /\ \A i, j \in 1..Len(fsops) :
       (i < j /\ fsops[i].op = "chmod" /\ fsops[j].op \in Makes)
         => /\ fsops[j].path # fsops[i].path
            /\ Parent(fsops[j].path) # fsops[i].path
  /\ lastCopy.faults = {} => lastCopy.errs = <<>>

\* C26: resolved holds only import paths for which a call has copied or has
\* run go get, and none of a package build.Import flags as a GOROOT package;
\* an import path once marked stays in it; and after a copyPkg call for a
\* package outside GOROOT has returned its import path is in it.
C26_ResolvedSet ==
  /\ resolved \subseteq { calls[n].id : n \in { q \in CallIdx :
                                                  calls[q].branch \in Work } }
  /\ \A n \in CallIdx : calls[n].goroot => calls[n].id \notin resolved
  /\ { fetched[k].id : k \in FetchIdx } \subseteq resolved
  /\ worked \subseteq resolved
  /\ (lastRet.branch # "none" /\ ~lastRet.pkg.Goroot) => lastRet.id \in resolved
====
